---- MODULE Spec2Model ----
(***************************************************************************)
(* A model of nblog, a log/slog handler that renders records in the        *)
(* NetBackup "legacy" format                                               *)
(*                                                                         *)
(*     time [pid] <sev> caller: message {"attribute": "value"}             *)
(*                                                                         *)
(* The model follows the continuation-passing implementation: baseHandler, *)
(* groupHandler and attrHandler of legacy.go, the serializer of json.go    *)
(* and ChainReplace of attrs.go.                                           *)
(*                                                                         *)
(* Text is modelled as it is written: the in-memory stream is the sequence *)
(* of the strings handed to it, one per write, and the destination         *)
(* receives their concatenation.  Of the characters that JSON escapes the  *)
(* strings of the model hold the newline only, in the text TwoLines.       *)
(***************************************************************************)
EXTENDS Integers, Sequences, FiniteSets, TLC

VARIABLES
    base,      \* the baseHandler built by New
    handlers,  \* the derived handlers, in order of creation; reference 0 is base
    cur,       \* the handler the client currently logs through
    last,      \* what the most recent operation did and returned
    repl1,     \* ChainReplace: first argument
    repl2,     \* ChainReplace: second argument
    chained,   \* ChainReplace: the function it returned, NotChained before the call
    levelVar,  \* the level held by the program's slog.LevelVar
    running,   \* the Handle calls under way in the program's goroutines
    streams,   \* the jsonStreams those calls have made, in order of creation
    stoppers,  \* the TraceStoppers Trace has returned, in order of creation
    destination  \* the Write calls those calls and the trace calls made on
                 \* the destination, in order

\* The state of the goroutines, of the traces and of what they wrote.
callVars == <<running, streams, stoppers, destination>>

vars == <<base, handlers, cur, last, repl1, repl2, chained, levelVar, callVars>>

(***************************************************************************)
(* Bounds of the model.                                                    *)
(***************************************************************************)
\* Derived handlers (WithAttrs / WithGroup results) in one run.
MaxHandlers == 4

\* How far below LevelDebug and above LevelError the levels of the severity
\* specification reach.
LevelMargin == 4

(***************************************************************************)
(* slog.Attr and slog.Value.  A value is kept as its kind and payload:     *)
(* num for Int64 and Time and for a slog.Level held in an Any, str for     *)
(* String and for the dynamic type of an Any, group for the members of a   *)
(* Group.  Unused payload fields hold the defaults below, so that          *)
(* Attr.Equal is equality of the records.                                  *)
(***************************************************************************)
Attr(k, kind, n, s, g) == [kind |-> kind, key |-> k, num |-> n, str |-> s, group |-> g]

slogInt(k, n) == Attr(k, "Int64", n, "", <<>>)

slogString(k, s) == Attr(k, "String", 0, s, <<>>)

slogGroup(k, members) == Attr(k, "Group", 0, "", members)

slogTime(k, t) == Attr(k, "Time", t, "", <<>>)

\* slog.Float64(k, v): str is the decimal text of v, "NaN" for a NaN.
slogFloat64(k, text) == Attr(k, "Float64", 0, text, <<>>)

\* slog.Any(k, v): str is the dynamic type of v ("nil", "Level", "chan").
slogAny(k, type, n) == Attr(k, "Any", n, type, <<>>)

slogUint64(k, n) == Attr(k, "Uint64", n, "", <<>>)

\* slog.Bool(k, v): str is "true" or "false".
slogBool(k, text) == Attr(k, "Bool", 0, text, <<>>)

\* slog.Duration(k, d): str is the text of d, as Duration.String gives it.
slogDuration(k, text) == Attr(k, "Duration", 0, text, <<>>)

\* slog.Any(k, v) for a v that is a slog.LogValuer: what v.LogValue() does is
\* "returns" (the value of the attribute inner; the key of inner plays no
\* part), "panics", or "returns-itself".
slogLogValuer(k, does, inner) == Attr(k, "LogValuer", 0, does, <<inner>>)

\* slog.Attr{}: the empty key with the zero Value, which is an Any holding nil.
ZeroAttr == slogAny("", "nil", 0)

TimeKey == "time"

LevelKey == "level"

MessageKey == "msg"

PidKey == "pid-47482072-7496-40a0-a048-ccfdba4e564e"

SyntheticKeys == {TimeKey, PidKey, LevelKey, MessageKey}

\* slog.Level values.
LevelDebug == -4

LevelInfo == 0

LevelWarn == 4

LevelError == 8

\* os.Getpid() of the modelled process.
Pid == 42

(***************************************************************************)
(* Replacement functions.  A ReplaceAttrFunc value is Nil, a named         *)
(* function handed in by the program, the identity closure ChainReplace    *)
(* returns for two nil arguments, or the closure it returns for two        *)
(* non-nil ones.                                                           *)
(***************************************************************************)
Nil == [op |-> "nil"]

Fn(name) == [op |-> "fn", name |-> name]

IdentityClosure == [op |-> "identity"]

ChainClosure(f, g) == [op |-> "chain", first |-> f, second |-> g]

(***************************************************************************)
(* The replacement functions a program hands in.  repl1 and repl2 are the  *)
(* ones of attrs_test.go; the others use the results the ReplaceAttrFunc   *)
(* contract names: the attribute as it is, a different attribute, the zero *)
(* attribute, an attribute with an empty key.                              *)
(***************************************************************************)
FnApply(name, groups, a) ==
    CASE name = "repl1" ->
           IF a.key = "a" /\ a.kind = "Int64" THEN [a EXCEPT !.num = 3 + a.num] ELSE a
      [] name = "repl2" ->
           IF a.key \in {"a", "b"} /\ a.kind = "Int64" THEN [a EXCEPT !.num = 2 * a.num] ELSE a
      [] name = "keep" -> a
      [] name = "zeroAttrs" -> IF a.key \in SyntheticKeys THEN a ELSE ZeroAttr
      [] name = "zeroAll" -> ZeroAttr
      [] name = "blankKey" -> [a EXCEPT !.key = ""]
      [] name = "revive" -> IF a.key = "" THEN slogString("z", "revived") ELSE a

FnNames == {"repl1", "repl2", "keep", "zeroAttrs", "zeroAll", "blankKey", "revive"}

\* ChainReplace with the arguments swapped in the composed closure.
ChainReplaceSwapped(r1, r2) ==
    IF r1 = Nil
    THEN IF r2 = Nil THEN IdentityClosure ELSE r2
    ELSE IF r2 = Nil THEN r1 ELSE ChainClosure(r2, r1)

ChainReplace(r1, r2) ==
    IF r1 = Nil
    THEN IF r2 = Nil THEN IdentityClosure ELSE r2
    ELSE IF r2 = Nil THEN r1 ELSE ChainClosure(r1, r2)

(***************************************************************************)
(* Calling a non-nil ReplaceAttrFunc value.  The result is the attribute   *)
(* returned and the calls made to the program's functions on the way, in   *)
(* order, each with the arguments it received.                             *)
(***************************************************************************)
RECURSIVE Call(_, _, _)
Call(f, groups, a) ==
    CASE f.op = "fn" ->
           [attr |-> FnApply(f.name, groups, a),
            calls |-> <<[groups |-> groups, attr |-> a, fn |-> f.name]>>]
      [] f.op = "identity" -> [attr |-> a, calls |-> <<>>]
      [] f.op = "chain" ->
           LET inner == Call(f.first, groups, a)
               outer == Call(f.second, groups, inner.attr)
           IN  [attr |-> outer.attr, calls |-> inner.calls \o outer.calls]

(***************************************************************************)
(* Text forms of values (the slog and time packages).                      *)
(***************************************************************************)
FullDateFormat == "2006-01-02 15:04:05.000"

TimeOnlyFormat == "15:04:05.000"

\* A non-zero time t is t milliseconds after 2006-01-02 15:04:05 UTC, 0 < t < 10;
\* 0 is the zero time.  A layout without a reference field comes out as it is.
FormatTime(t, layout) ==
    CASE layout = FullDateFormat -> "2006-01-02 15:04:05.00" \o ToString(t)
      [] layout = TimeOnlyFormat -> "15:04:05.00" \o ToString(t)
      [] OTHER -> layout

TimeString(t) == "2006-01-02 15:04:05.00" \o ToString(t) \o " +0000 UTC"

\* slog.Level.String
LevelString(l) ==
    LET str(name, val) ==
            IF val = 0 THEN name
            ELSE IF val > 0 THEN name \o "+" \o ToString(val)
            ELSE name \o ToString(val)
    IN  CASE l < LevelInfo -> str("DEBUG", l - LevelDebug)
          [] l >= LevelInfo /\ l < LevelWarn -> str("INFO", l - LevelInfo)
          [] l >= LevelWarn /\ l < LevelError -> str("WARN", l - LevelWarn)
          [] OTHER -> str("ERROR", l - LevelError)

RECURSIVE ValueString(_)
\* slog.Value.String
ValueString(a) ==
    CASE a.kind = "String" -> a.str
      [] a.kind = "Int64" -> ToString(a.num)
      [] a.kind = "Float64" -> a.str
      [] a.kind = "Time" -> TimeString(a.num)
      [] a.kind = "Uint64" -> ToString(a.num)
      [] a.kind \in {"Bool", "Duration"} -> a.str
      [] a.kind = "Any" ->
           (CASE a.str = "nil" -> "<nil>"
              [] a.str = "Level" -> LevelString(a.num)
              [] OTHER -> "0xc000012345")
      [] a.kind = "Group" ->
           LET RECURSIVE members(_)
               members(g) ==
                   IF g = <<>> THEN ""
                   ELSE Head(g).key \o "=" \o ValueString(Head(g))
                        \o (IF Len(g) > 1 THEN " " ELSE "") \o members(Tail(g))
           IN  "[" \o members(a.group) \o "]"

\* Value.Resolve that returns the value as it is.
ResolveNothing(a) == a

RECURSIVE Resolve(_)
\* Value.Resolve: LogValue is called until the value is no LogValuer; a
\* LogValue that panics, and one that never returns anything but a LogValuer,
\* give a value holding an error.
Resolve(a) ==
    IF a.kind # "LogValuer" THEN a
    ELSE CASE a.str = "returns" -> Resolve([a.group[1] EXCEPT !.key = a.key])
           [] OTHER -> slogAny(a.key, "error", 0)

(***************************************************************************)
(* jsonStream: the jsoniter stream (its buffer, one entry per write, and   *)
(* its Error) and needComma.  panic holds the message of a panic raised    *)
(* while writing; calls and fncalls record, for the Handle call under way, *)
(* the calls of baseHandler.replaceAttrs and the calls that reached the    *)
(* program's replacement functions.                                        *)
(***************************************************************************)
newJSONStream ==
    [calls |-> <<>>, buf |-> <<>>, needComma |-> FALSE, err |-> FALSE,
     panic |-> "", fncalls |-> <<>>]

WriteRaw(out, s) == [out EXCEPT !.buf = Append(@, s)]

\* A text of two lines.
TwoLines == "two\nlines"

\* A text as jsoniter writes it inside quotes: a newline becomes a backslash
\* and the letter n.
Escaped(s) == IF s = TwoLines THEN "two\\nlines" ELSE s

\* The text jsoniter writes for an object field: the quoted label and a colon.
FieldText(label) == "\"" \o Escaped(label) \o "\":"

\* The text jsoniter's WriteString writes.
QuotedText(s) == "\"" \o Escaped(s) \o "\""

\* WriteObjectField that never writes the separating comma.
WriteObjectFieldNoComma(out, label) ==
    [out EXCEPT !.buf = @ \o <<FieldText(label), " ">>, !.needComma = TRUE]

WriteObjectField(out, label) ==
    [out EXCEPT !.buf = (IF out.needComma THEN @ \o <<",", " ">> ELSE @)
                            \o <<FieldText(label), " ">>,
                !.needComma = TRUE]

WriteObjectStart(out) == [out EXCEPT !.buf = Append(@, "{"), !.needComma = FALSE]

WriteObjectEnd(out) == [out EXCEPT !.buf = Append(@, "}"), !.needComma = TRUE]

WriteString(out, val) == WriteRaw(out, QuotedText(val))

WriteInt64(out, val) == WriteRaw(out, ToString(val))

WriteUint64(out, val) == WriteRaw(out, ToString(val))

\* val is the text "true" or "false".
WriteBool(out, val) == WriteRaw(out, val)

\* jsoniter refuses NaN and the infinities: it sets Error and writes nothing.
WriteFloat64(out, text) ==
    IF text = "NaN" THEN [out EXCEPT !.err = TRUE] ELSE WriteRaw(out, text)

\* jsoniter's WriteVal: null for nil, the quoted name for a slog.Level (its
\* MarshalJSON), an empty object for an error made by the fmt or errors package
\* (a struct with no exported field); a value of a type it cannot encode sets
\* Error and writes nothing.
WriteVal(out, a) ==
    CASE a.str = "nil" -> WriteRaw(out, "null")
      [] a.str = "Level" -> WriteRaw(out, QuotedText(LevelString(a.num)))
      [] a.str = "error" -> WriteRaw(out, "{}")
      [] OTHER -> [out EXCEPT !.err = TRUE]

writeString(out, attr) == WriteString(WriteObjectField(out, attr.key), ValueString(attr))

writeInt64(out, attr) == WriteInt64(WriteObjectField(out, attr.key), attr.num)

writeUint64(out, attr) == WriteUint64(WriteObjectField(out, attr.key), attr.num)

writeFloat64(out, attr) == WriteFloat64(WriteObjectField(out, attr.key), attr.str)

writeBool(out, attr) == WriteBool(WriteObjectField(out, attr.key), attr.str)

writeDuration(out, attr) == WriteString(WriteObjectField(out, attr.key), attr.str)

writeTime(out, attr) == WriteString(WriteObjectField(out, attr.key), TimeString(attr.num))

writeAny(out, attr) == WriteVal(WriteObjectField(out, attr.key), attr)

writeLogValuer(out, attr) ==
    [out EXCEPT !.panic = "Unexpected use of LogValuer instead of Value.Resolve"]

\* The kinds writeByKind has a writer for.
writeByKind ==
    {"String", "Int64", "Uint64", "Float64", "Bool", "Duration", "Time", "Any", "LogValuer"}

\* write(out, attr) for the writer writeByKind holds for the attribute's kind.
writeKind(out, attr) ==
    CASE attr.kind = "String" -> writeString(out, attr)
      [] attr.kind = "Int64" -> writeInt64(out, attr)
      [] attr.kind = "Uint64" -> writeUint64(out, attr)
      [] attr.kind = "Float64" -> writeFloat64(out, attr)
      [] attr.kind = "Bool" -> writeBool(out, attr)
      [] attr.kind = "Duration" -> writeDuration(out, attr)
      [] attr.kind = "Time" -> writeTime(out, attr)
      [] attr.kind = "Any" -> writeAny(out, attr)
      [] attr.kind = "LogValuer" -> writeLogValuer(out, attr)

(***************************************************************************)
(* Handlers.  base is the baseHandler; a derived handler is a groupHandler *)
(* or an attrHandler and refers to its previousHandler by reference: 0 is  *)
(* base, i > 0 is handlers[i].                                             *)
(***************************************************************************)
groupHandler(prev, name) ==
    [kind |-> "group", group |-> name, previousHandler |-> prev, attributes |-> <<>>]

attrHandler(prev, attrs) ==
    [kind |-> "attr", group |-> "", previousHandler |-> prev, attributes |-> attrs]

\* slog.Leveler values: a slog.Level, or the program's *slog.LevelVar.
ConstLevel(l) == [leveler |-> "Level", level |-> l]

LevelVarRef == [leveler |-> "LevelVar"]

\* leveler.Level(): a LevelVar is read when the call is made.
LevelerLevel(lv) == IF lv.leveler = "LevelVar" THEN levelVar ELSE lv.level

\* The options New accepts.
LevelOpt(level) == [level |-> level, opt |-> "Level"]

ReplaceAttrOpt(repl) == [opt |-> "ReplaceAttr", repl |-> repl]

TimestampFormatOpt(f) == [f |-> f, opt |-> "TimestampFormat"]

UseFullCallerNameOpt(use) == [opt |-> "UseFullCallerName", use |-> use]

NumericSeverityOpt(numeric) == [opt |-> "NumericSeverity", numeric |-> numeric]

\* opt(handler) for one option.
ApplyOption(h, o) ==
    CASE o.opt = "Level" -> [h EXCEPT !.level = o.level]
      [] o.opt = "ReplaceAttr" -> [h EXCEPT !.replaceAttr = ChainReplace(h.replaceAttr, o.repl)]
      [] o.opt = "TimestampFormat" -> [h EXCEPT !.timestampFormat = o.f]
      [] o.opt = "UseFullCallerName" -> [h EXCEPT !.useFullCallerName = o.use]
      [] o.opt = "NumericSeverity" -> [h EXCEPT !.numericSeverity = o.numeric]

RECURSIVE ApplyOptions(_, _)
ApplyOptions(h, opts) ==
    IF opts = <<>> THEN h ELSE ApplyOptions(ApplyOption(h, Head(opts)), Tail(opts))

New(opts) ==
    ApplyOptions([level |-> ConstLevel(LevelInfo),
                  replaceAttr |-> Nil,
                  timestampFormat |-> FullDateFormat,
                  useFullCallerName |-> FALSE,
                  numericSeverity |-> FALSE], opts)

RECURSIVE Enabled(_, _)
\* Enabled that compares with the level the LevelVar held when New was called.
EnabledAtConstruction(h, alev) ==
    IF h = 0
    THEN alev >= (IF base.level.leveler = "LevelVar" THEN LevelInfo ELSE base.level.level)
    ELSE Enabled(handlers[h].previousHandler, alev)

\* Enabled of a handler: a derived handler asks its previousHandler.
Enabled(h, alev) ==
    IF h = 0 THEN alev >= LevelerLevel(base.level)
    ELSE Enabled(handlers[h].previousHandler, alev)

RECURSIVE groups(_)
\* groups with a group's name put before the names of the groups around it.
groupsInnermostFirst(h) ==
    IF h = 0 THEN <<>>
    ELSE IF handlers[h].kind = "group"
         THEN <<handlers[h].group>> \o groups(handlers[h].previousHandler)
         ELSE groups(handlers[h].previousHandler)

groups(h) ==
    IF h = 0 THEN <<>>
    ELSE IF handlers[h].kind = "group"
         THEN Append(groups(handlers[h].previousHandler), handlers[h].group)
         ELSE groups(handlers[h].previousHandler)

(***************************************************************************)
(* baseHandler.replaceAttrs, on the stream that carries the call records:  *)
(* the attribute returned and the stream.  bh is the baseHandler the       *)
(* methods and the writers are called on or with.                          *)
(***************************************************************************)
\* replaceAttrs that returns the zero attribute when no function is configured.
replaceAttrsZeroWithoutFunc(bh, out, grps, attr) ==
    LET noted == [out EXCEPT !.calls = Append(@, [groups |-> grps, attr |-> attr])]
    IN  IF bh.replaceAttr # Nil
        THEN LET r == Call(bh.replaceAttr, grps, attr)
             IN  [attr |-> r.attr, out |-> [noted EXCEPT !.fncalls = @ \o r.calls]]
        ELSE [attr |-> ZeroAttr, out |-> noted]

replaceAttrs(bh, out, grps, attr) ==
    LET noted == [out EXCEPT !.calls = Append(@, [groups |-> grps, attr |-> attr])]
        replaced(r) == [attr |-> r.attr, out |-> [noted EXCEPT !.fncalls = @ \o r.calls]]
    IN  IF bh.replaceAttr # Nil
        THEN replaced(Call(bh.replaceAttr, grps, attr))
        ELSE [attr |-> attr, out |-> noted]

(***************************************************************************)
(* The attribute serializer: writeNextAttribute, writeAttribute and        *)
(* writeGroup call each other; writeAttrList is the loop over a list of    *)
(* attributes that several callers run.  A panic ends the call: nothing    *)
(* runs after it.                                                          *)
(***************************************************************************)
RECURSIVE writeNextAttribute(_, _, _, _)
RECURSIVE writeAttribute(_, _, _, _)
RECURSIVE writeGroup(_, _, _, _)
RECURSIVE writeAttrList(_, _, _, _)

writeNextAttribute(bh, a, out, grps) ==
    LET written(r) ==
            IF r.attr # ZeroAttr THEN writeAttribute(bh, r.out, grps, r.attr) ELSE r.out
    IN  IF out.panic # "" THEN out
        ELSE written(replaceAttrs(bh, out, grps, a))

writeAttribute(bh, out, grps, attr0) ==
    LET resolved(attr) ==
            IF attr.kind = "Group" THEN writeGroup(bh, out, grps, attr)
            ELSE IF attr.kind \notin writeByKind
                 THEN [out EXCEPT !.panic = "No writer found for value"]
                 ELSE writeKind(out, attr)
    IN  resolved(Resolve(attr0))

writeGroup(bh, out, grps, attr) ==
    IF attr.key # ""
    THEN LET opened == WriteObjectStart(WriteObjectField(out, attr.key))
             closed(done) == IF done.panic # "" THEN done ELSE WriteObjectEnd(done)
         IN  closed(writeAttrList(bh, attr.group, opened, Append(grps, attr.key)))
    ELSE writeAttrList(bh, attr.group, out, grps)

writeAttrList(bh, attrs, out, grps) ==
    IF attrs = <<>> THEN out
    ELSE writeAttrList(bh, Tail(attrs),
                       writeNextAttribute(bh, Head(attrs), out, grps), grps)

(***************************************************************************)
(* The steps of baseHandler.writeWithContinuation.                         *)
(***************************************************************************)
\* The program counter of the call of Trace in DoTrace.
DoTracePC == 2

\* runtime.CallersFrames: the function of a program counter.
FrameFunction(pc) ==
    [name |-> IF pc = DoTracePC THEN "DoTrace" ELSE "TestWithGroup",
     pkg |-> "github.com/rkennedy/nblog_test"]

\* writeTimestamp without the test of rec.Time.IsZero().
writeTimestampAlways(bh, out, rec) ==
    LET r == replaceAttrs(bh, out, <<>>, slogTime(TimeKey, rec.time))
        timestamp == IF r.attr.kind = "Time"
                     THEN FormatTime(r.attr.num, bh.timestampFormat)
                     ELSE ValueString(r.attr)
    IN  IF r.attr = ZeroAttr THEN r.out ELSE WriteRaw(r.out, timestamp \o " ")

writeTimestamp(bh, out, rec) ==
    LET written(r) ==
            LET timestamp == IF r.attr.kind = "Time"
                             THEN FormatTime(r.attr.num, bh.timestampFormat)
                             ELSE ValueString(r.attr)
            IN  IF r.attr = ZeroAttr THEN r.out ELSE WriteRaw(r.out, timestamp \o " ")
    IN  IF rec.time = 0 THEN out
        ELSE written(replaceAttrs(bh, out, <<>>, slogTime(TimeKey, rec.time)))

writePid(bh, out, rec) ==
    LET written(r) ==
            IF r.attr = ZeroAttr THEN r.out
            ELSE WriteRaw(r.out, "[" \o ValueString(r.attr) \o "] ")
    IN  written(replaceAttrs(bh, out, <<>>, slogInt(PidKey, Pid)))

\* math.Pow(2, level/diff + offset) as its decimal text: the exponent is
\* (level - 2*LevelDebug)/diff, a whole number for the levels slog names.
\* scaleLevel with the offset 1, without the share of LevelDebug.
scaleLevelOffsetOne(level) ==
    LET diff == LevelError - LevelWarn
        quarters == level + diff
    IN  IF quarters % diff = 0 /\ quarters >= 0
        THEN ToString(2 ^ (quarters \div diff))
        ELSE "2^(" \o ToString(quarters) \o "/" \o ToString(diff) \o ")"

\* scaleLevel with the level counted from LevelWarn.
scaleLevelFromWarn(level) ==
    LET diff == LevelError - LevelWarn
        quarters == (level - LevelWarn) + diff - LevelDebug
    IN  IF quarters % diff = 0 /\ quarters >= 0
        THEN ToString(2 ^ (quarters \div diff))
        ELSE "2^(" \o ToString(quarters) \o "/" \o ToString(diff) \o ")"

scaleLevel(level) ==
    LET diff == LevelError - LevelWarn
        quarters == level + diff - LevelDebug
    IN  IF quarters % diff = 0 /\ quarters >= 0
        THEN ToString(2 ^ (quarters \div diff))
        ELSE "2^(" \o ToString(quarters) \o "/" \o ToString(diff) \o ")"

writeLevel(bh, out, rec) ==
    LET written(r) ==
            LET levelAttr ==
                    IF bh.numericSeverity /\ r.attr.kind = "Any" /\ r.attr.str = "Level"
                    THEN slogFloat64(r.attr.key, scaleLevel(r.attr.num))
                    ELSE r.attr
            IN  IF r.attr = ZeroAttr THEN r.out
                ELSE WriteRaw(r.out, "<" \o ValueString(levelAttr) \o "> ")
    IN  written(replaceAttrs(bh, out, <<>>, slogAny(LevelKey, "Level", rec.level)))

writeCaller(bh, out, rec) ==
    IF rec.pc = 0 THEN out
    ELSE LET frame == FrameFunction(rec.pc)
             who == IF bh.useFullCallerName
                    THEN frame.pkg \o "." \o frame.name
                    ELSE frame.name
         IN  WriteRaw(out, who \o ": ")

writeMessage(bh, out, rec) ==
    LET written(r) == IF r.attr = ZeroAttr THEN r.out ELSE WriteRaw(r.out, ValueString(r.attr))
    IN  written(replaceAttrs(bh, out, <<>>, slogString(MessageKey, rec.message)))

writeEnd(bh, out, rec) == WriteRaw(out, "\n")

(***************************************************************************)
(* Continuations.  A nestedCallback is nil, <<>> here, or a closure; a     *)
(* closure is kept as the sequence of the closures it wraps, outermost     *)
(* first: the closure a groupHandler or an attrHandler makes captures the  *)
(* handler and the callback it was given, the closure commonHandle makes   *)
(* captures the leaf handler and the record.                               *)
(***************************************************************************)
RECURSIVE callNested(_, _, _, _)
\* callNested whose attrHandler closure calls the child's callback before it
\* writes the handler's own attributes.
callNestedChildFirst(bh, cb, out, rec) ==
    LET c == Head(cb)
    IN  CASE c.kind = "group" ->
               LET opened == WriteObjectStart(WriteObjectField(out, handlers[c.h].group))
                   r == callNested(bh, Tail(cb), opened, rec)
               IN  [n |-> 1 + r.n, out |-> r.out]
          [] c.kind = "attr" ->
               LET r == IF Tail(cb) # <<>> THEN callNested(bh, Tail(cb), out, rec)
                        ELSE [n |-> 0, out |-> out]
               IN  [n |-> r.n,
                    out |-> writeAttrList(bh, handlers[c.h].attributes, r.out, groups(c.h))]
          [] c.kind = "record" ->
               [n |-> 0, out |-> writeAttrList(bh, rec.attrs, out, groups(c.h))]

\* writeNested(base, out): the stream afterwards and the number returned.
callNested(bh, cb, out, rec) ==
    LET c == Head(cb)
        counted(r) == [n |-> 1 + r.n, out |-> r.out]
        child(written) == IF Tail(cb) # <<>> THEN callNested(bh, Tail(cb), written, rec)
                          ELSE [n |-> 0, out |-> written]
    IN  CASE c.kind = "group" ->
               LET opened == WriteObjectStart(WriteObjectField(out, handlers[c.h].group))
               IN  counted(callNested(bh, Tail(cb), opened, rec))
          [] c.kind = "attr" ->
               child(writeAttrList(bh, handlers[c.h].attributes, out, groups(c.h)))
          [] c.kind = "record" ->
               [n |-> 0, out |-> writeAttrList(bh, rec.attrs, out, groups(c.h))]

RECURSIVE closeObjects(_, _)
\* n times out.WriteObjectEnd()
closeObjects(out, n) == IF n = 0 THEN out ELSE closeObjects(WriteObjectEnd(out), n - 1)

\* writeAttributes closing as many objects as writeNested reports, and not the
\* one it opened itself.
writeAttributesNestedOnly(bh, cb, out, rec) ==
    IF cb = <<>> THEN out
    ELSE LET r == callNested(bh, cb, WriteObjectStart(WriteRaw(out, " ")), rec)
         IN  IF r.out.panic # "" THEN r.out ELSE closeObjects(r.out, r.n)

\* The writingStepFunc writeAttributes(bh, writeNested) returns.
writeAttributes(bh, cb, out, rec) ==
    LET closed(r) == IF r.out.panic # "" THEN r.out ELSE closeObjects(r.out, 1 + r.n)
    IN  IF cb = <<>> THEN out
        ELSE closed(callNested(bh, cb, WriteObjectStart(WriteRaw(out, " ")), rec))

\* The writers with the message written before the caller.
writersMessageFirst ==
    <<"writeTimestamp", "writePid", "writeLevel", "writeMessage", "writeCaller",
      "writeAttributes", "writeEnd">>

\* The writers baseHandler.writeWithContinuation runs, in order.
writers ==
    <<"writeTimestamp", "writePid", "writeLevel", "writeCaller", "writeMessage",
      "writeAttributes", "writeEnd">>

runWriter(bh, name, out, rec, cb) ==
    CASE name = "writeTimestamp" -> writeTimestamp(bh, out, rec)
      [] name = "writePid" -> writePid(bh, out, rec)
      [] name = "writeLevel" -> writeLevel(bh, out, rec)
      [] name = "writeCaller" -> writeCaller(bh, out, rec)
      [] name = "writeMessage" -> writeMessage(bh, out, rec)
      [] name = "writeAttributes" -> writeAttributes(bh, cb, out, rec)
      [] name = "writeEnd" -> writeEnd(bh, out, rec)

RECURSIVE runWriters(_, _, _, _, _)
\* The loop over the writers: it ends at the first one that leaves an error.
runWriters(bh, i, out, rec, cb) ==
    LET next(o) == IF o.err \/ o.panic # "" THEN o ELSE runWriters(bh, i + 1, o, rec, cb)
    IN  IF i > Len(writers) THEN out
        ELSE next(runWriter(bh, writers[i], out, rec, cb))

RECURSIVE Concat(_)
\* out.Buffer(): the bytes of the stream.
Concat(buf) == IF buf = <<>> THEN "" ELSE Head(buf) \o Concat(Tail(buf))

(***************************************************************************)
(* What a Handle call did: ret is "nil" or the error returned ("stream"    *)
(* for out.Error(), "write" for the destination's), or "panic" when the    *)
(* call did not return; writes are the arguments of the calls of           *)
(* destination.Write, in order; out is the stream at the end.              *)
(***************************************************************************)
\* baseHandler.writeWithContinuation without its checks of out.Error().
baseWriteIgnoringError(bh, out0, rec, cb, writeFails) ==
    LET RECURSIVE run(_, _)
        run(i, out) ==
            IF i > Len(writers) THEN out
            ELSE run(i + 1, runWriter(bh, writers[i], out, rec, cb))
        out == run(1, out0)
    IN  IF out.panic # "" THEN [out |-> out, ret |-> "panic", writes |-> <<>>]
        ELSE [out |-> out,
              ret |-> IF writeFails THEN "write" ELSE "nil",
              writes |-> <<Concat(out.buf)>>]

\* baseHandler.writeWithContinuation that writes what the stream holds before
\* it returns the stream's error.
baseWriteBeforeError(bh, out0, rec, cb, writeFails) ==
    LET out == runWriters(bh, 1, out0, rec, cb)
    IN  IF out.panic # "" THEN [out |-> out, ret |-> "panic", writes |-> <<>>]
        ELSE IF out.err THEN [out |-> out, ret |-> "stream", writes |-> <<Concat(out.buf)>>]
        ELSE [out |-> out,
              ret |-> IF writeFails THEN "write" ELSE "nil",
              writes |-> <<Concat(out.buf)>>]

\* baseHandler.writeWithContinuation calling Write a second time after a failure.
baseWriteRetrying(bh, out0, rec, cb, writeFails) ==
    LET out == runWriters(bh, 1, out0, rec, cb)
    IN  IF out.panic # "" THEN [out |-> out, ret |-> "panic", writes |-> <<>>]
        ELSE IF out.err THEN [out |-> out, ret |-> "stream", writes |-> <<>>]
        ELSE IF writeFails
             THEN [out |-> out, ret |-> "write", writes |-> <<Concat(out.buf), Concat(out.buf)>>]
             ELSE [out |-> out, ret |-> "nil", writes |-> <<Concat(out.buf)>>]

baseWriteWithContinuation(bh, out0, rec, cb, writeFails) ==
    LET returned(out) ==
            IF out.panic # "" THEN [out |-> out, ret |-> "panic", writes |-> <<>>]
            ELSE IF out.err THEN [out |-> out, ret |-> "stream", writes |-> <<>>]
            ELSE [out |-> out,
                  ret |-> IF writeFails THEN "write" ELSE "nil",
                  writes |-> <<Concat(out.buf)>>]
    IN  returned(runWriters(bh, 1, out0, rec, cb))

RECURSIVE writeWithContinuation(_, _, _, _, _, _)
writeWithContinuation(bh, h, out, rec, cb, writeFails) ==
    IF h = 0 THEN baseWriteWithContinuation(bh, out, rec, cb, writeFails)
    ELSE IF handlers[h].kind = "group"
         THEN writeWithContinuation(
                  bh, handlers[h].previousHandler, out, rec,
                  IF cb # <<>> THEN <<[kind |-> "group", h |-> h]>> \o cb ELSE <<>>,
                  writeFails)
         ELSE writeWithContinuation(
                  bh, handlers[h].previousHandler, out, rec,
                  <<[kind |-> "attr", h |-> h]>> \o cb,
                  writeFails)

commonHandle(bh, h, rec, writeFails) ==
    writeWithContinuation(
        bh, h, newJSONStream, rec,
        IF Len(rec.attrs) # 0 THEN <<[kind |-> "record", h |-> h]>> ELSE <<>>,
        writeFails)

(***************************************************************************)
(* The inputs of the model.                                                *)
(***************************************************************************)
\* The option lists New is called with.
OptionLists ==
    {<<>>,
     <<ReplaceAttrOpt(Fn("keep")), UseFullCallerNameOpt(TRUE)>>,
     <<ReplaceAttrOpt(Fn("zeroAttrs")), LevelOpt(ConstLevel(LevelDebug)), NumericSeverityOpt(TRUE),
       TimestampFormatOpt(TimeOnlyFormat)>>,
     <<ReplaceAttrOpt(Fn("zeroAll"))>>,
     <<ReplaceAttrOpt(Fn("blankKey"))>>,
     <<ReplaceAttrOpt(Fn("zeroAttrs")), ReplaceAttrOpt(Fn("revive"))>>}

\* The attribute lists WithAttrs is called with.
BoundAttrLists ==
    {<<>>,
     <<slogInt("c", 3)>>,
     <<slogInt("a", 1)>>,
     <<slogInt("a", 1), slogGroup("r", <<>>)>>,
     <<slogString("who", "override")>>}

\* The names WithGroup is called with.
GroupNames == {"", "g", "h"}

Record(t, level, pc, attrs) ==
    [attrs |-> attrs, level |-> level, pc |-> pc, time |-> t, message |-> "a message"]

\* The records Handle is called with.  slog.Record drops an empty group at the
\* top level of a record, so no record holds one.
Records ==
    {Record(1, LevelInfo, 1, <<>>),
     Record(1, LevelInfo, 1, <<slogInt("b", 1)>>),
     Record(2, LevelWarn, 1, <<slogString("who", "override")>>),
     Record(0, LevelDebug, 0, <<slogAny("x", "chan", 0)>>),
     Record(3, LevelError, 1,
            <<slogString("d", "v"), slogGroup("s", <<slogInt("b", 1), slogInt("e", 5)>>)>>),
     Record(2, LevelWarn, 1, <<slogGroup("", <<slogInt("b", 1)>>), slogInt("e", 5)>>),
     Record(0, LevelDebug, 0, <<>>)}

\* Handle's inputs: a record, and whether the destination's Write fails.
HandleInputs ==
    {[rec |-> rec, writeFails |-> FALSE] : rec \in Records}
    \cup {[rec |-> Record(1, LevelInfo, 1, <<slogInt("b", 1)>>), writeFails |-> TRUE]}

\* chained before ChainReplace has been called.
NotChained == [op |-> "none"]

\* The goroutines of the program that log.
Goroutines == {"g1", "g2"}

\* A goroutine that has not called Handle.
Idle == [pc |-> "idle"]

\* No goroutine has called Handle and Trace has not been called.
NoCalls ==
    /\ running = [g \in Goroutines |-> Idle]
    /\ streams = <<>>
    /\ stoppers = <<>>
    /\ destination = <<>>

(***************************************************************************)
(* The handler specification: New, then WithAttrs, WithGroup and Handle on *)
(* the handler the client holds.                                           *)
(***************************************************************************)
Init ==
    /\ \E opts \in OptionLists :
          /\ base = New(opts)
          /\ last = [op |-> "New", opts |-> opts]
    /\ handlers = <<>>
    /\ cur = 0
    /\ repl1 = Nil
    /\ repl2 = Nil
    /\ chained = NotChained
    /\ levelVar = LevelInfo
    /\ NoCalls

\* commonWithAttrs that, called on an attrHandler, appends to the attributes
\* of the receiver and returns it.
commonWithAttrsAppending(h, attrs) ==
    IF Len(attrs) = 0 THEN [handlers |-> handlers, ret |-> h]
    ELSE IF h # 0 /\ handlers[h].kind = "attr"
         THEN [handlers |-> [handlers EXCEPT ![h].attributes = @ \o attrs], ret |-> h]
         ELSE [handlers |-> Append(handlers, attrHandler(h, attrs)), ret |-> Len(handlers) + 1]

\* commonWithAttrs without the test for an empty list.
commonWithAttrsAlways(h, attrs) ==
    [handlers |-> Append(handlers, attrHandler(h, attrs)), ret |-> Len(handlers) + 1]

\* commonWithAttrs: the handler returned and the handlers that exist afterwards.
commonWithAttrs(h, attrs) ==
    IF Len(attrs) = 0 THEN [handlers |-> handlers, ret |-> h]
    ELSE [handlers |-> Append(handlers, attrHandler(h, attrs)), ret |-> Len(handlers) + 1]

\* commonWithGroup: the handler returned and the handlers that exist afterwards.
commonWithGroup(h, name) ==
    IF name = "" THEN [handlers |-> handlers, ret |-> h]
    ELSE [handlers |-> Append(handlers, groupHandler(h, name)), ret |-> Len(handlers) + 1]

\* cur.WithAttrs(attrs); the client goes on with the handler returned.
DeriveAttrs(attrs) ==
    LET r == commonWithAttrs(cur, attrs)
    IN  /\ Len(r.handlers) <= MaxHandlers
        /\ handlers' = r.handlers
        /\ cur' = r.ret
        /\ last' = [op |-> "WithAttrs", attrs |-> attrs, h |-> cur, ret |-> r.ret]
        /\ UNCHANGED <<base, repl1, repl2, chained, levelVar, callVars>>

\* cur.WithGroup(name); the client goes on with the handler returned.
DeriveGroup(name) ==
    LET r == commonWithGroup(cur, name)
    IN  /\ Len(r.handlers) <= MaxHandlers
        /\ handlers' = r.handlers
        /\ cur' = r.ret
        /\ last' = [op |-> "WithGroup", name |-> name, h |-> cur, ret |-> r.ret]
        /\ UNCHANGED <<base, repl1, repl2, chained, levelVar, callVars>>

WithAttrs == \E attrs \in BoundAttrLists : DeriveAttrs(attrs)

WithGroup == \E name \in GroupNames : DeriveGroup(name)

\* A Handle call changes no handler, so a call that follows another one repeats
\* a step of the state before it: a run takes one Handle step at a time.
HandleRecord(in) ==
    /\ last.op # "Handle"
    /\ last' = [op |-> "Handle", h |-> cur,
                r |-> commonHandle(base, cur, in.rec, in.writeFails),
                rec |-> in.rec, writeFails |-> in.writeFails]
    /\ UNCHANGED <<base, handlers, cur, repl1, repl2, chained, levelVar, callVars>>

Handle == \E in \in HandleInputs : HandleRecord(in)

Next == WithAttrs \/ WithGroup \/ Handle

Spec == Init /\ [][Next]_vars

(***************************************************************************)
(* The ChainReplace specification: a program combines two replacement      *)
(* functions, each possibly nil, and calls the function it got back.       *)
(***************************************************************************)
\* The values a program passes to ChainReplace.
ReplFuncs == {Nil} \cup {Fn(name) : name \in FnNames}

\* The group paths and the attributes the chained function is called with.
ChainGroups == {<<>>, <<"g">>, <<"g", "h">>}

ChainAttrs ==
    {slogInt("a", 1), slogInt("b", 2), slogInt("c", 3), slogString("d", "v"),
     slogTime(TimeKey, 1), slogGroup("s", <<slogInt("b", 1)>>)}

InitChain ==
    /\ base = New(<<>>)
    /\ handlers = <<>>
    /\ cur = 0
    /\ last = [op |-> "none"]
    /\ repl1 = Nil
    /\ repl2 = Nil
    /\ chained = NotChained
    /\ levelVar = LevelInfo
    /\ NoCalls

Chain ==
    \E r1 \in ReplFuncs, r2 \in ReplFuncs :
        /\ repl1' = r1
        /\ repl2' = r2
        /\ chained' = ChainReplace(r1, r2)
        /\ last' = [op |-> "ChainReplace"]
        /\ UNCHANGED <<base, handlers, cur, levelVar, callVars>>

Apply ==
    /\ chained # NotChained
    /\ \E grps \in ChainGroups, a \in ChainAttrs :
          last' = [op |-> "Apply", groups |-> grps, attr |-> a, r |-> Call(chained, grps, a)]
    /\ UNCHANGED <<base, handlers, cur, repl1, repl2, chained, levelVar, callVars>>

NextChain == Chain \/ Apply

SpecChain == InitChain /\ [][NextChain]_vars

(***************************************************************************)
(* The level specification: a slog.Logger in front of the handler, with    *)
(* the minimum level held in a slog.LevelVar the program sets, or fixed.   *)
(* The Logger asks Enabled before it builds a record and calls Handle.     *)
(***************************************************************************)
Levels == {LevelDebug, LevelInfo, LevelWarn, LevelError}

InitLevel ==
    /\ \E lv \in {LevelVarRef, ConstLevel(LevelWarn)} :
          /\ base = New(<<LevelOpt(lv)>>)
          /\ last = [op |-> "New", opts |-> <<LevelOpt(lv)>>]
    /\ handlers = <<>>
    /\ cur = 0
    /\ repl1 = Nil
    /\ repl2 = Nil
    /\ chained = NotChained
    /\ levelVar = LevelInfo
    /\ NoCalls

LoggerWith == DeriveAttrs(<<slogInt("a", 1)>>)

LoggerWithGroup == DeriveGroup("g")

\* level.Set(l)
SetLevel ==
    \E l \in Levels :
        /\ levelVar' = l
        /\ last' = [op |-> "Set", level |-> l]
        /\ UNCHANGED <<base, handlers, cur, repl1, repl2, chained, callVars>>

\* cur.Enabled(ctx, l)
EnabledCall ==
    \E l \in Levels :
        /\ last' = [op |-> "Enabled", level |-> l, h |-> cur, ret |-> Enabled(cur, l)]
        /\ UNCHANGED <<base, handlers, cur, repl1, repl2, chained, levelVar, callVars>>

\* logger.Log(ctx, l, "a message"): Handle is called if Enabled says so.
LoggerLog ==
    \E l \in Levels :
        LET rec == Record(1, l, 1, <<>>)
            enabled == Enabled(cur, l)
        IN  /\ last' = [op |-> "Log", h |-> cur, rec |-> rec,
                        writes |-> IF enabled
                                   THEN commonHandle(base, cur, rec, FALSE).writes
                                   ELSE <<>>,
                        enabled |-> enabled]
            /\ UNCHANGED <<base, handlers, cur, repl1, repl2, chained, levelVar, callVars>>

NextLevel == LoggerWith \/ LoggerWithGroup \/ SetLevel \/ EnabledCall \/ LoggerLog

SpecLevel == InitLevel /\ [][NextLevel]_vars

(***************************************************************************)
(* Trace and its stoppers.  The logger's handler is built with the level   *)
(* variable, so that Debug is enabled and disabled between the calls.      *)
(***************************************************************************)
\* The number of Trace calls, and of records the destination holds.
MaxTraces == 2

MaxTraceRecords == 4

\* The program counters Trace is called from.
TracePCs == {1, DoTracePC}

\* The reading of the clock at a Trace call; Stop reads it then or later.
TraceTimes == {1}

\* time.Duration.String of a number of milliseconds.
DurationText(d) == IF d = 0 THEN "0s" ELSE ToString(d) \o "ms"

\* slog.NewRecord.
NewRecord(t, level, msg, pc) == [Record(t, level, pc, <<>>) EXCEPT !.message = msg]

\* Record.Add.
RecordAdd(r, attr) == [r EXCEPT !.attrs = Append(r.attrs, attr)]

nullStopper == [kind |-> "nullStopper"]

\* What the handler writes for the record of the Trace call or stopper by.
TraceHandle(by, h, r) ==
    LET written(writes) ==
            [w \in DOMAIN writes |-> [rec |-> r, by |-> by, bytes |-> writes[w]]]
    IN  written(commonHandle(base, h, r, FALSE).writes)

\* A Stop that asks the logger whether Debug is enabled.
stopperStopIfEnabled(s, by, now) ==
    IF s.kind = "nullStopper" \/ ~Enabled(s.logger, LevelDebug) THEN <<>>
    ELSE TraceHandle(by, s.logger,
                     RecordAdd(NewRecord(now, LevelDebug, "Exited.", s.pc),
                               slogDuration("duration", DurationText(now - s.start))))

\* stopper.Stop and nullStopper.Stop: what the call has written.
stopperStop(s, by, now) ==
    IF s.kind = "nullStopper" THEN <<>>
    ELSE TraceHandle(by, s.logger,
                     RecordAdd(NewRecord(now, LevelDebug, "Exited.", s.pc),
                               slogDuration("duration", DurationText(now - s.start))))

InitTrace ==
    /\ base = New(<<LevelOpt(LevelVarRef)>>)
    /\ last = [op |-> "New", opts |-> <<LevelOpt(LevelVarRef)>>]
    /\ handlers = <<>>
    /\ cur = 0
    /\ repl1 = Nil
    /\ repl2 = Nil
    /\ chained = NotChained
    /\ levelVar = LevelInfo
    /\ NoCalls

\* LevelVar.Set between the calls.
TraceSetLevel ==
    \E l \in {LevelDebug, LevelInfo} :
        /\ levelVar' = l
        /\ last' = [op |-> "Set", level |-> l]
        /\ UNCHANGED <<base, handlers, cur, repl1, repl2, chained, callVars>>

\* Logger.WithGroup: the logger Trace is called with.
TraceWithGroup ==
    /\ cur = 0
    /\ DeriveGroup("g")

Trace ==
    \E pc \in TracePCs, now \in TraceTimes :
        LET enabled == Enabled(cur, LevelDebug)
            by == Len(stoppers) + 1
        IN  /\ Len(stoppers) < MaxTraces
            /\ Len(destination) < MaxTraceRecords
            /\ IF ~enabled
               THEN /\ stoppers' = Append(stoppers, nullStopper)
                    /\ UNCHANGED destination
               ELSE /\ destination' =
                          destination
                          \o TraceHandle(by, cur, NewRecord(now, LevelDebug, "Entered.", pc))
                    /\ stoppers' = Append(stoppers,
                                          [kind |-> "stopper", pc |-> pc,
                                           logger |-> cur, start |-> now])
            /\ last' = [op |-> "Trace", enabled |-> enabled, by |-> by]
            /\ UNCHANGED <<base, handlers, cur, repl1, repl2, chained, levelVar,
                           running, streams>>

Stop ==
    \E by \in DOMAIN stoppers, later \in {0, 1} :
        LET s == stoppers[by]
            now == IF s.kind = "stopper" THEN s.start + later ELSE later
        IN  /\ Len(destination) < MaxTraceRecords
            /\ destination' = destination \o stopperStop(s, by, now)
            /\ last' = [op |-> "Stop", enabled |-> Enabled(cur, LevelDebug), by |-> by]
            /\ UNCHANGED <<base, handlers, cur, repl1, repl2, chained, levelVar,
                           running, streams, stoppers>>

NextTrace == TraceSetLevel \/ TraceWithGroup \/ Trace \/ Stop

SpecTrace == InitTrace /\ [][NextTrace]_vars

(***************************************************************************)
(* The fork specification: the client keeps every handler it was given and *)
(* calls WithAttrs, WithGroup and Handle on any of them, so that a handler *)
(* gets several children.  Each step records in last.before the line every *)
(* handler there is writes for ForkProbe when the step begins.             *)
(***************************************************************************)
ForkProbe == Record(1, LevelInfo, 1, <<slogInt("b", 1)>>)

\* Every handler there is: the base handler and the derived ones.
AllHandlers == {0} \cup DOMAIN handlers

\* For each handler, the line it writes for ForkProbe.
ProbeLines == [h \in AllHandlers |-> commonHandle(base, h, ForkProbe, FALSE).writes]

InitFork ==
    /\ \E opts \in {<<>>, <<ReplaceAttrOpt(Fn("keep"))>>} :
          /\ base = New(opts)
          /\ last = [op |-> "New", opts |-> opts]
    /\ handlers = <<>>
    /\ cur = 0
    /\ repl1 = Nil
    /\ repl2 = Nil
    /\ chained = NotChained
    /\ levelVar = LevelInfo
    /\ NoCalls

\* h.WithAttrs(attrs) on a handler h the client holds.
ForkWithAttrs ==
    \E h \in AllHandlers, attrs \in {<<slogInt("a", 1)>>} :
        LET r == commonWithAttrs(h, attrs)
        IN  /\ Len(r.handlers) <= MaxHandlers
            /\ handlers' = r.handlers
            /\ cur' = r.ret
            /\ last' = [op |-> "WithAttrs", attrs |-> attrs, h |-> h, ret |-> r.ret,
                        before |-> ProbeLines]
            /\ UNCHANGED <<base, repl1, repl2, chained, levelVar, callVars>>

\* h.WithGroup(name) on a handler h the client holds.
ForkWithGroup ==
    \E h \in AllHandlers, name \in {"g"} :
        LET r == commonWithGroup(h, name)
        IN  /\ Len(r.handlers) <= MaxHandlers
            /\ handlers' = r.handlers
            /\ cur' = r.ret
            /\ last' = [op |-> "WithGroup", name |-> name, h |-> h, ret |-> r.ret,
                        before |-> ProbeLines]
            /\ UNCHANGED <<base, repl1, repl2, chained, levelVar, callVars>>

\* h.Handle(ctx, rec) on a handler h the client holds.
ForkHandle ==
    /\ last.op # "Handle"
    /\ \E h \in AllHandlers, rec \in {ForkProbe, Record(2, LevelWarn, 1, <<>>)} :
          /\ cur' = h
          /\ last' = [op |-> "Handle", h |-> h,
                      r |-> commonHandle(base, h, rec, FALSE),
                      rec |-> rec, writeFails |-> FALSE, before |-> ProbeLines]
    /\ UNCHANGED <<base, handlers, repl1, repl2, chained, levelVar, callVars>>

NextFork == ForkWithAttrs \/ ForkWithGroup \/ ForkHandle

SpecFork == InitFork /\ [][NextFork]_vars

(***************************************************************************)
(* The kinds specification: handlers and records whose attributes are of   *)
(* every kind of slog.Value, the lazy ones (slog.LogValuer) included, at   *)
(* the top level, bound, and as members of groups.                         *)
(***************************************************************************)
\* A LogValuer whose LogValue returns a group with a LogValuer among its
\* members.
LazyGroup ==
    slogLogValuer("p", "returns",
        slogGroup("", <<slogLogValuer("q", "returns", slogString("", "v"))>>))

\* A LogValuer whose LogValue returns a LogValuer.
LazyChain ==
    slogLogValuer("c", "returns", slogLogValuer("", "returns", slogInt("", 5)))

KindOptionLists == {<<>>, <<ReplaceAttrOpt(Fn("keep"))>>}

KindAttrLists ==
    {<<slogLogValuer("l", "returns", slogInt("", 5))>>,
     <<slogGroup("k", <<slogLogValuer("o", "returns-itself", ZeroAttr)>>)>>}

KindRecords ==
    {Record(1, LevelInfo, 1, <<slogString("d", "v"), slogInt("b", 1), slogUint64("u", 7)>>),
     Record(1, LevelInfo, 1,
            <<slogFloat64("f", "2.5"), slogBool("t", "true"), slogDuration("w", "1.5s")>>),
     Record(1, LevelInfo, 1, <<slogTime("m", 3), slogAny("n", "nil", 0)>>),
     Record(1, LevelInfo, 1,
            <<slogLogValuer("l", "returns", slogInt("", 5)),
              slogLogValuer("y", "panics", ZeroAttr),
              slogLogValuer("o", "returns-itself", ZeroAttr)>>),
     Record(1, LevelInfo, 1, <<LazyGroup>>),
     Record(1, LevelInfo, 1,
            <<slogGroup("s", <<slogLogValuer("y", "panics", ZeroAttr), LazyChain>>)>>),
     Record(1, LevelInfo, 1, <<>>)}

InitKinds ==
    /\ \E opts \in KindOptionLists :
          /\ base = New(opts)
          /\ last = [op |-> "New", opts |-> opts]
    /\ handlers = <<>>
    /\ cur = 0
    /\ repl1 = Nil
    /\ repl2 = Nil
    /\ chained = NotChained
    /\ levelVar = LevelInfo
    /\ NoCalls

WithKindAttrs == \E attrs \in KindAttrLists : DeriveAttrs(attrs)

WithKindGroup == DeriveGroup("g")

HandleKinds == \E rec \in KindRecords : HandleRecord([rec |-> rec, writeFails |-> FALSE])

NextKinds == WithKindAttrs \/ WithKindGroup \/ HandleKinds

SpecKinds == InitKinds /\ [][NextKinds]_vars

(***************************************************************************)
(* The severity specification: a handler with numeric severity, and        *)
(* records at every level from below LevelDebug to above LevelError, the   *)
(* levels between the named ones included.                                 *)
(***************************************************************************)
SeverityLevels == (LevelDebug - LevelMargin)..(LevelError + LevelMargin)

InitSeverity ==
    /\ \E opts \in {<<NumericSeverityOpt(TRUE)>>,
                     <<NumericSeverityOpt(TRUE), ReplaceAttrOpt(Fn("keep"))>>} :
          /\ base = New(opts)
          /\ last = [op |-> "New", opts |-> opts]
    /\ handlers = <<>>
    /\ cur = 0
    /\ repl1 = Nil
    /\ repl2 = Nil
    /\ chained = NotChained
    /\ levelVar = LevelInfo
    /\ NoCalls

SeverityWithAttrs == DeriveAttrs(<<slogInt("a", 1)>>)

SeverityWithGroup == DeriveGroup("g")

HandleLevel ==
    \E level \in SeverityLevels :
        HandleRecord([rec |-> Record(1, level, 1, <<>>), writeFails |-> FALSE])

NextSeverity == SeverityWithAttrs \/ SeverityWithGroup \/ HandleLevel

SpecSeverity == InitSeverity /\ [][NextSeverity]_vars

(***************************************************************************)
(* The lines specification: records whose message and whose attributes     *)
(* hold a newline.                                                         *)
(***************************************************************************)
LineRecords ==
    {[Record(1, LevelInfo, 1, attrs) EXCEPT !.message = msg] :
        msg \in {"a message", TwoLines},
        attrs \in {<<>>, <<slogString("d", TwoLines)>>, <<slogInt(TwoLines, 1)>>}}

InitLines ==
    /\ \E opts \in {<<>>, <<ReplaceAttrOpt(Fn("keep"))>>} :
          /\ base = New(opts)
          /\ last = [op |-> "New", opts |-> opts]
    /\ handlers = <<>>
    /\ cur = 0
    /\ repl1 = Nil
    /\ repl2 = Nil
    /\ chained = NotChained
    /\ levelVar = LevelInfo
    /\ NoCalls

LinesWithAttrs == DeriveAttrs(<<slogString("a", TwoLines)>>)

LinesWithGroup == DeriveGroup("g")

HandleLines == \E rec \in LineRecords : HandleRecord([rec |-> rec, writeFails |-> FALSE])

NextLines == LinesWithAttrs \/ LinesWithGroup \/ HandleLines

SpecLines == InitLines /\ [][NextLines]_vars

(***************************************************************************)
(* The goroutines specification: goroutines call Handle at the same time   *)
(* on the handler the client holds, while the client goes on deriving      *)
(* handlers.  A call takes one step for commonHandle's first lines, one    *)
(* for each writer of baseHandler.writeWithContinuation and one for the    *)
(* Write on the destination; the steps of the calls interleave freely.     *)
(***************************************************************************)
\* A stream every call uses: the first one made.
sharedStream == IF streams = <<>> THEN Len(streams) + 1 ELSE Len(streams)

\* out := newJSONStream(): a stream no other call refers to.
freshStream == Len(streams) + 1

RECURSIVE nestedCallback(_, _)
\* The callback baseHandler.writeWithContinuation receives when
\* h.writeWithContinuation is called with cb.
nestedCallback(h, cb) ==
    IF h = 0 THEN cb
    ELSE IF handlers[h].kind = "group"
         THEN nestedCallback(handlers[h].previousHandler,
                             IF cb # <<>> THEN <<[kind |-> "group", h |-> h]>> \o cb ELSE <<>>)
         ELSE nestedCallback(handlers[h].previousHandler, <<[kind |-> "attr", h |-> h]>> \o cb)

\* The records the goroutines log.
GoroutineRecords ==
    {ForkProbe, Record(2, LevelWarn, 1, <<>>), Record(3, LevelError, 1, <<slogAny("x", "chan", 0)>>)}

InitGoroutines ==
    /\ base = New(<<ReplaceAttrOpt(Fn("keep"))>>)
    /\ last = [op |-> "New", opts |-> <<ReplaceAttrOpt(Fn("keep"))>>]
    /\ handlers = <<>>
    /\ cur = 0
    /\ repl1 = Nil
    /\ repl2 = Nil
    /\ chained = NotChained
    /\ levelVar = LevelInfo
    /\ NoCalls

ClientWithAttrs == DeriveAttrs(<<slogInt("a", 1)>>)

ClientWithGroup == DeriveGroup("g")

\* Goroutine g calls cur.Handle(ctx, rec): commonHandle makes the stream and
\* the callback for the record's attributes and calls writeWithContinuation.
StartHandle(g) ==
    /\ running[g] = Idle
    /\ \E rec \in GoroutineRecords :
          LET out == freshStream
          IN  /\ streams' = IF out > Len(streams) THEN Append(streams, newJSONStream)
                            ELSE [streams EXCEPT ![out] = newJSONStream]
              /\ running' = [running EXCEPT ![g] =
                    [out |-> out, h |-> cur, pc |-> "writers", rec |-> rec,
                     cb |-> nestedCallback(
                                cur,
                                IF Len(rec.attrs) # 0
                                THEN <<[kind |-> "record", h |-> cur]>> ELSE <<>>),
                     i |-> 1,
                     ret |-> "none"]]
    /\ UNCHANGED <<base, handlers, cur, last, repl1, repl2, chained, levelVar,
                   stoppers, destination>>

\* The call of goroutine g runs the next writer of the loop of
\* baseHandler.writeWithContinuation and tests out.Error().
StepWriter(g) ==
    /\ running[g].pc = "writers"
    /\ LET c == running[g]
           o == runWriter(base, writers[c.i], streams[c.out], c.rec, c.cb)
       IN  /\ streams' = [streams EXCEPT ![c.out] = o]
           /\ running' = [running EXCEPT ![g] =
                 IF o.panic # "" THEN [c EXCEPT !.pc = "done", !.ret = "panic"]
                 ELSE IF o.err THEN [c EXCEPT !.pc = "done", !.ret = "stream"]
                 ELSE IF c.i = Len(writers) THEN [c EXCEPT !.pc = "write"]
                 ELSE [c EXCEPT !.i = c.i + 1]]
    /\ UNCHANGED <<base, handlers, cur, last, repl1, repl2, chained, levelVar,
                   stoppers, destination>>

\* The call of goroutine g calls h.destination.Write(out.Buffer()) and returns.
WriteBuffer(g) ==
    /\ running[g].pc = "write"
    /\ destination' = Append(destination,
                             [by |-> g, bytes |-> Concat(streams[running[g].out].buf)])
    /\ running' = [running EXCEPT ![g].pc = "done", ![g].ret = "nil"]
    /\ UNCHANGED <<base, handlers, cur, last, repl1, repl2, chained, levelVar,
                   streams, stoppers>>

NextGoroutines ==
    \/ ClientWithAttrs
    \/ ClientWithGroup
    \/ \E g \in Goroutines : StartHandle(g)
    \/ \E g \in Goroutines : StepWriter(g)
    \/ \E g \in Goroutines : WriteBuffer(g)

SpecGoroutines == InitGoroutines /\ [][NextGoroutines]_vars

(***************************************************************************)
(* Reading a Handle call's output.  The stream holds one entry per write,  *)
(* so the line is read entry by entry: an object field is the entry        *)
(* FieldText(key), the attribute block starts at the first "{" and ends at *)
(* the last "}".                                                           *)
(***************************************************************************)
Handled == last.op = "Handle"

\* The call wrote its line to the destination.
Wrote == Len(last.r.writes) = 1

Tokens == last.r.out.buf

\* Every key of the model's attributes and group frames.
Keys == {"", "a", "b", "c", "d", "e", "g", "h", "r", "s", "who", "x", "z"}

IsField(t) == \E k \in Keys : t = FieldText(k)

KeyOf(t) == CHOOSE k \in Keys : t = FieldText(k)

Positions(buf, t) == {i \in DOMAIN buf : buf[i] = t}

Least(S) == CHOOSE i \in S : \A j \in S : i <= j

Greatest(S) == CHOOSE i \in S : \A j \in S : i >= j

HasBlock(buf) == Positions(buf, "{") # {} /\ Positions(buf, "}") # {}

\* The attribute block with its braces, and what is between them.
BlockTokens(buf) ==
    IF HasBlock(buf)
    THEN SubSeq(buf, Least(Positions(buf, "{")), Greatest(Positions(buf, "}")))
    ELSE <<>>

BlockInner(buf) ==
    IF HasBlock(buf)
    THEN SubSeq(buf, Least(Positions(buf, "{")) + 1, Greatest(Positions(buf, "}")) - 1)
    ELSE <<>>

\* The entries before the attribute block: the segments of the header.
RECURSIVE Header(_)
Header(buf) ==
    IF buf = <<>> \/ Head(buf) \in {" ", "\n"} THEN <<>>
    ELSE <<Head(buf)>> \o Header(Tail(buf))

RECURSIVE ParseLeaves(_, _, _)
\* The members of a block that are no objects, in the order written, each
\* with the keys of the objects around it: key is <<k>> after the field k.
ParseLeaves(toks, path, key) ==
    IF toks = <<>> THEN <<>>
    ELSE LET t == Head(toks)
             rest == Tail(toks)
         IN  CASE t = "{" -> ParseLeaves(rest, path \o key, <<>>)
               [] t = "}" -> ParseLeaves(rest, SubSeq(path, 1, Len(path) - 1), <<>>)
               [] t \in {",", " "} -> ParseLeaves(rest, path, key)
               [] IsField(t) -> ParseLeaves(rest, path, <<KeyOf(t)>>)
               [] OTHER -> <<[key |-> key, text |-> t, path |-> path]>>
                           \o ParseLeaves(rest, path, <<>>)

\* The JSON text of a value that is no group.
ValueText(a) ==
    CASE a.kind = "Int64" -> ToString(a.num)
      [] a.kind = "String" -> QuotedText(a.str)
      [] OTHER -> "null"

RECURSIVE Leaves(_, _)
\* The attributes of a list that are no groups, a group's members in its place,
\* each with the groups around it.
Leaves(attrs, path) ==
    IF attrs = <<>> THEN <<>>
    ELSE LET a == Head(attrs)
         IN  (IF a.kind = "Group"
              THEN Leaves(a.group, IF a.key = "" THEN path ELSE Append(path, a.key))
              ELSE <<[key |-> <<a.key>>, text |-> ValueText(a), path |-> path]>>)
             \o Leaves(Tail(attrs), path)

RECURSIVE Frames(_)
\* The handlers h was derived through, first derived first.
Frames(h) == IF h = 0 THEN <<>> ELSE Append(Frames(handlers[h].previousHandler), h)

RECURSIVE BoundLeaves(_, _)
\* The bound attributes of a sequence of frames, in derivation order, each with
\* the names of the group frames before it.
BoundLeaves(frames, path) ==
    IF frames = <<>> THEN <<>>
    ELSE LET f == handlers[Head(frames)]
         IN  IF f.kind = "group"
             THEN BoundLeaves(Tail(frames), Append(path, f.group))
             ELSE Leaves(f.attributes, path) \o BoundLeaves(Tail(frames), path)

\* The names of the group frames of a sequence of frames.
FrameGroups(frames) ==
    LET RECURSIVE names(_)
        names(fs) ==
            IF fs = <<>> THEN <<>>
            ELSE (IF handlers[Head(fs)].kind = "group"
                  THEN <<handlers[Head(fs)].group>> ELSE <<>>) \o names(Tail(fs))
    IN  names(frames)

\* Every attribute bound on the way to h, and every attribute of the record.
AllAttrs(h, rec) ==
    LET RECURSIVE bound(_)
        bound(fs) == IF fs = <<>> THEN <<>> ELSE handlers[Head(fs)].attributes \o bound(Tail(fs))
    IN  bound(Frames(h)) \o rec.attrs

\* The replacement chain of the handler leaves every attribute as it is.
IdentityRepl == base.replaceAttr \in {Nil, Fn("keep")}

(***************************************************************************)
(* Claims.                                                                 *)
(***************************************************************************)
\* C1, as claimed: every Handle call on a base or derived handler performs
\* exactly one Write call on the destination.
C1_ExactlyOneWrite == Handled => Len(last.r.writes) = 1

\* C1, amended: a Handle call performs at most one Write call on the
\* destination, whatever the bound attributes, group frames and call-site
\* attributes: exactly one, holding the whole line, when serializing the record
\* leaves no error on the stream, and none when it leaves one; Handle then
\* returns the stream's error.
C1_OneWriteUnlessStreamError ==
    Handled =>
        /\ Len(last.r.writes) <= 1
        /\ last.r.out.err => (last.r.writes = <<>> /\ last.r.ret = "stream")
        /\ ~last.r.out.err =>
              /\ last.r.writes = <<Concat(Tokens)>>
              /\ Tokens[Len(Tokens)] = "\n"
              /\ last.r.ret \in {"nil", "write"}

\* C1: a derived handler with bound attributes and group frames has written a
\* record with call-site attributes in one Write.
C1_Witness ==
    /\ Handled
    /\ Len(last.r.writes) = 1
    /\ Len(last.rec.attrs) > 1
    /\ \E i, j \in DOMAIN handlers : handlers[i].kind = "group" /\ handlers[j].kind = "attr"
    /\ cur = Len(handlers)

\* The derivations of the example: bind c=3, open g, bind a=1, open h.
ExampleChain ==
    /\ handlers = <<attrHandler(0, <<slogInt("c", 3)>>), groupHandler(1, "g"),
                    attrHandler(2, <<slogInt("a", 1)>>), groupHandler(3, "h")>>
    /\ cur = 4

\* C2: after any sequence of WithAttrs / WithGroup derivations, under a
\* replacement chain that leaves attributes as they are, the attribute block of
\* a written line lists the bound attributes in derivation order, each inside
\* exactly the group frames opened before it was bound, and the record's
\* call-site attributes last, inside all the group frames; the example's block
\* is {"c": 3, "g": {"a": 1, "h": {"b": 1}}}.
C2_DerivationOrder ==
    (Handled /\ Wrote /\ IdentityRepl) =>
        /\ ParseLeaves(BlockInner(Tokens), <<>>, <<>>)
              = BoundLeaves(Frames(cur), <<>>)
                \o Leaves(last.rec.attrs, FrameGroups(Frames(cur)))
        /\ (ExampleChain /\ last.rec.attrs = <<slogInt("b", 1)>>) =>
              Concat(BlockTokens(Tokens)) = "{\"c\": 3, \"g\": {\"a\": 1, \"h\": {\"b\": 1}}}"

\* C2: the example's derivations have been made and its record written.
C2_Witness ==
    /\ Handled
    /\ Wrote
    /\ base.replaceAttr = Nil
    /\ ExampleChain
    /\ last.rec.attrs = <<slogInt("b", 1)>>
    /\ Concat(BlockTokens(Tokens)) = "{\"c\": 3, \"g\": {\"a\": 1, \"h\": {\"b\": 1}}}"

\* The field name opens an object in the block.
HasObject(buf, name) ==
    \E i \in DOMAIN buf :
        /\ buf[i] = FieldText(name)
        /\ i + 2 <= Len(buf)
        /\ buf[i + 1] = " "
        /\ buf[i + 2] = "{"

\* The field name holds an object without members.
EmptyObject(buf, name) ==
    \E i \in DOMAIN buf :
        /\ buf[i] = FieldText(name)
        /\ i + 3 <= Len(buf)
        /\ buf[i + 1] = " "
        /\ buf[i + 2] = "{"
        /\ buf[i + 3] = "}"

\* C3: a group opened with WithGroup always appears in the attribute block of
\* a written line as a nested object under its name, even when no attribute
\* ends up inside it: binding a=1, opening a group and logging a record
\* without call-site attributes renders {"a": 1, "g": {}}.
C3_GroupFrameAlwaysAppears ==
    (Handled /\ Wrote) =>
        /\ \A i \in DOMAIN Frames(cur) :
              handlers[Frames(cur)[i]].kind = "group" =>
                  HasObject(Tokens, handlers[Frames(cur)[i]].group)
        /\ (/\ IdentityRepl
            /\ handlers = <<attrHandler(0, <<slogInt("a", 1)>>), groupHandler(1, "g")>>
            /\ cur = 2
            /\ last.rec.attrs = <<>>) =>
              Concat(BlockTokens(Tokens)) = "{\"a\": 1, \"g\": {}}"

\* C4: a group-typed attribute value, bound or passed at call time, is written
\* as a nested object only if one of its members is written: a group value
\* without members leaves neither its key nor braces in the line, and no group
\* value leaves an object without members.
C4_EmptyGroupValueOmitted ==
    (Handled /\ Wrote) =>
        \A i \in DOMAIN AllAttrs(cur, last.rec) :
            LET a == AllAttrs(cur, last.rec)[i]
            IN  a.kind = "Group" =>
                    /\ a.group = <<>> => Positions(Tokens, FieldText(a.key)) = {}
                    /\ ~EmptyObject(Tokens, a.key)

\* C5: when no attribute is written, because none was bound or passed or
\* because the replacement chain removed every one, the attribute block is
\* omitted: the line has no braces and no space before its end.
C5_BlockOmittedWhenEmpty ==
    (Handled /\ Wrote /\ \A i \in DOMAIN Tokens : ~IsField(Tokens[i])) =>
        /\ Positions(Tokens, "{") = {}
        /\ Positions(Tokens, "}") = {}
        /\ Positions(Tokens, " ") = {}

\* The caller segment: the resolved function name, short or full.
CallerSegments ==
    {FrameFunction(1).name \o ": ",
     FrameFunction(1).pkg \o "." \o FrameFunction(1).name \o ": "}

\* C6: if an attribute keyed "who" is among the record's call-site attributes
\* or among the bound attributes, its value is the caller segment of the line
\* in place of the resolved caller name, with the full and with the short
\* caller-name setting.
C6_WhoOverridesCaller ==
    (Handled /\ Wrote /\ IdentityRepl /\ last.rec.pc # 0) =>
        \A i \in DOMAIN AllAttrs(cur, last.rec) :
            LET a == AllAttrs(cur, last.rec)[i]
            IN  a.key = "who" =>
                    /\ Positions(Header(Tokens), a.str \o ": ") # {}
                    /\ \A c \in CallerSegments : Positions(Header(Tokens), c) = {}

\* C7: an attribute keyed "who" is never written as a member of the attribute
\* block.
C7_WhoNeverEmitted == Handled => Positions(Tokens, FieldText("who")) = {}

\* f applied to an attribute, nil being the identity.
ApplyOrIdentity(f, grps, a) == IF f = Nil THEN a ELSE FnApply(f.name, grps, a)

\* C8: the function ChainReplace(repl1, repl2) returns is never nil, and called
\* with (groups, attr) it returns repl2(groups, repl1(groups, attr)), a nil
\* argument acting as the identity.
C8_ChainIsComposition ==
    /\ chained # Nil
    /\ last.op = "Apply" =>
          last.r.attr = ApplyOrIdentity(repl2, last.groups,
                                        ApplyOrIdentity(repl1, last.groups, last.attr))

\* C8: ChainReplace(repl1, repl2) of attrs_test.go has turned a=1 into a=8.
C8_Witness ==
    /\ last.op = "Apply"
    /\ repl1 = Fn("repl1")
    /\ repl2 = Fn("repl2")
    /\ last.attr = slogInt("a", 1)
    /\ last.r.attr = slogInt("a", 8)

\* C9: in a chain of A then B, if A returns an attribute with an empty key the
\* chain stops there: B is not called for that attribute, and the chain's
\* result is the removal.
C9_ShortCircuit ==
    (/\ last.op = "Apply"
     /\ repl1 # Nil
     /\ repl2 # Nil
     /\ FnApply(repl1.name, last.groups, last.attr).key = "") =>
        /\ Len(last.r.calls) = 1
        /\ last.r.attr.key = ""

\* What the handler's replacement chain returns for a call of replaceAttrs.
Replaced(c) ==
    IF base.replaceAttr = Nil THEN c.attr ELSE Call(base.replaceAttr, c.groups, c.attr).attr

\* C10: whenever the replacement chain returns an attribute with an empty key,
\* whatever its value, the attribute is omitted from the line: the header holds
\* a segment for the caller and for each of time, pid, level and message that
\* came back with a key, and no member of the block has the empty key.
C10_EmptyKeyOmitted ==
    Handled =>
        LET calls == last.r.out.calls
            kept == {i \in DOMAIN calls :
                        /\ calls[i].attr.key \in SyntheticKeys
                        /\ calls[i].groups = <<>>
                        /\ Replaced(calls[i]).key # ""}
        IN  /\ Len(Header(Tokens)) = Cardinality(kept) + (IF last.rec.pc # 0 THEN 1 ELSE 0)
            /\ Positions(Tokens, FieldText("")) = {}

\* Two Handle calls gave the same result and the same bytes.
SameOutput(x, y) == x.ret = y.ret /\ x.writes = y.writes /\ x.out.buf = y.out.buf

\* C11: a handler configured with an identity replacement function (one the
\* program hands in, or the one ReplaceAttr(nil) installs) produces, for every
\* handler chain and every record, the same bytes as the handler configured
\* with no replacement function.
C11_IdentityReplacementSameOutput ==
    Handled =>
        /\ base.replaceAttr = Fn("keep") =>
              SameOutput(last.r, commonHandle([base EXCEPT !.replaceAttr = Nil],
                                              cur, last.rec, last.writeFails))
        /\ base.replaceAttr = Nil =>
              SameOutput(last.r, commonHandle(ApplyOption(base, ReplaceAttrOpt(Nil)),
                                              cur, last.rec, last.writeFails))

\* C11: a handler with the identity replacement, derived through group frames
\* and bound attributes, has written a record with call-site attributes.
C11_Witness ==
    /\ Handled
    /\ Wrote
    /\ base.replaceAttr = Fn("keep")
    /\ Len(last.rec.attrs) > 1
    /\ \E i, j \in DOMAIN handlers : handlers[i].kind = "group" /\ handlers[j].kind = "attr"
    /\ cur = Len(handlers)
    /\ Len(last.r.out.fncalls) > 4

\* The timestamp segments of the model's records, the zero time included, in
\* both layouts.
TimeSegments ==
    {FormatTime(rec.time, layout) \o " " :
        rec \in Records, layout \in {FullDateFormat, TimeOnlyFormat}}

\* The pid segment.
PidSegment == "[" \o ToString(Pid) \o "] "

\* C12: for a record whose time is the zero value the line holds no timestamp
\* and no space in its place, it starts with the pid segment (unless the
\* replacement chain removed the pid), and the replacement chain is not called
\* for the time field.
C12_ZeroTimeOmitted ==
    (Handled /\ last.rec.time = 0) =>
        /\ \A i \in DOMAIN last.r.out.calls : last.r.out.calls[i].attr.key # TimeKey
        /\ \A i \in DOMAIN Tokens : Tokens[i] \notin TimeSegments
        /\ Replaced([groups |-> <<>>, attr |-> slogInt(PidKey, Pid)]) # ZeroAttr =>
              Tokens[1] = PidSegment

\* C12: a record with the zero time has been written, pid segment first.
C12_Witness ==
    /\ Handled
    /\ Wrote
    /\ last.rec.time = 0
    /\ Tokens[1] = PidSegment
    /\ Len(last.r.out.fncalls) > 0

\* The NetBackup severity of the levels slog names.
Severity(level) ==
    CASE level = LevelDebug -> 2
      [] level = LevelInfo -> 4
      [] level = LevelWarn -> 8
      [] level = LevelError -> 16

\* The level segments a line can hold: names and numbers.
LevelSegments ==
    {"<" \o LevelString(rec.level) \o "> " : rec \in Records}
    \cup {"<" \o ToString(n) \o "> " : n \in 0..32}

\* C13: with numeric severity enabled and the level left as it is by the
\* replacement chain, a record at Debug, Info, Warn or Error is rendered with
\* the severity 2, 4, 8 or 16, and with no other level segment.
C13_NumericSeverity ==
    (/\ Handled
     /\ base.numericSeverity
     /\ last.rec.level \in {LevelDebug, LevelInfo, LevelWarn, LevelError}
     /\ Replaced([groups |-> <<>>, attr |-> slogAny(LevelKey, "Level", last.rec.level)])
           = slogAny(LevelKey, "Level", last.rec.level)) =>
        \A t \in LevelSegments :
            (Positions(Header(Tokens), t) # {})
                <=> (t = "<" \o ToString(Severity(last.rec.level)) \o "> ")

\* C13: a record at Error has been written with severity 16.
C13_Witness ==
    /\ Handled
    /\ Wrote
    /\ base.numericSeverity
    /\ last.rec.level = LevelError
    /\ Positions(Header(Tokens), "<16> ") # {}

\* C14: Enabled(L) on the base handler or on a handler derived from it is true
\* exactly when L is at least the minimum level as it is when the call is
\* made, whatever the program has set the level variable to before; a Logger
\* that asks Enabled first writes a record exactly when its level is at least
\* the current minimum.
C14_EnabledReadsCurrentLevel ==
    /\ last.op = "Enabled" => (last.ret <=> last.level >= LevelerLevel(base.level))
    /\ last.op = "Log" =>
          (Len(last.writes) = 1 <=> last.rec.level >= LevelerLevel(base.level))

\* C14: after the program raised the level variable to Error, Enabled(Warn)
\* on a derived handler has returned false.
C14_Witness ==
    /\ last.op = "Enabled"
    /\ base.level = LevelVarRef
    /\ levelVar = LevelError
    /\ cur # 0
    /\ last.level = LevelWarn
    /\ ~last.ret

\* The destination's Write was called and failed.
WriteFailed == Handled /\ last.writeFails /\ Len(last.r.writes) > 0

\* C15: when the destination's Write fails, Handle returns the destination's
\* error itself and Write has been called once only, with the whole line.
C15_WriteErrorReturnedNoRetry ==
    WriteFailed =>
        /\ last.r.ret = "write"
        /\ last.r.writes = <<Concat(last.r.out.buf)>>

\* C15: a Handle call on a derived handler whose Write failed.
C15_Witness == WriteFailed /\ last.h # 0 /\ HasBlock(Tokens)

\* The segments that are written with a space after them, and the space
\* written before the attribute block.
SpaceEnded == TimeSegments \cup {PidSegment} \cup LevelSegments \cup CallerSegments \cup {" "}

\* The entries of the line up to the opening brace of the attribute block, or
\* all of them if the line has no block.
BeforeBlock(buf) ==
    IF Positions(buf, "{") = {} THEN buf
    ELSE SubSeq(buf, 1, Least(Positions(buf, "{")))

\* C16: in every line written the segments present are separated by exactly
\* one space and the newline follows the last one directly: nothing that ends
\* with a space is followed by a space or by the newline, also when the
\* replacement chain removed the message.
C16_SingleSpaces ==
    (Handled /\ Wrote) =>
        LET toks == BeforeBlock(Tokens)
        IN  \A i \in 1..(Len(toks) - 1) :
                toks[i] \in SpaceEnded => toks[i + 1] \notin {" ", "\n"}

\* The place of an entry of the line among the segments: timestamp, pid,
\* severity, caller, message, then the space and the brace that open the
\* attribute block, then the newline.
SegmentRank(tok) ==
    CASE tok \in TimeSegments -> 1
      [] tok = PidSegment -> 2
      [] tok \in LevelSegments -> 3
      [] tok \in CallerSegments -> 4
      [] tok = " " -> 6
      [] tok = "{" -> 7
      [] tok = "\n" -> 8
      [] OTHER -> 5

\* The line of a record at Info with the message "a message", logged at time 1
\* by the function TestWithGroup.
BasicLogFormat ==
    FormatTime(1, FullDateFormat) \o " [" \o ToString(Pid) \o "] <INFO> TestWithGroup: a message\n"

\* C17: the segments of every line written stand in the order timestamp, pid,
\* severity, caller, message, attribute block, each at most once, the block
\* reaching to the newline that ends the line; with the default configuration
\* and no attributes, a record at Info with the message "a message" is written
\* as "YYYY-MM-DD HH:MM:SS.mmm [pid] <INFO> caller: a message" and a newline.
C17_SegmentOrder ==
    (Handled /\ Wrote) =>
        /\ LET toks == BeforeBlock(Tokens)
           IN  \A i, j \in DOMAIN toks :
                   i < j => SegmentRank(toks[i]) < SegmentRank(toks[j])
        /\ Tokens[Len(Tokens)] = "\n"
        /\ HasBlock(Tokens) => Tokens[Len(Tokens) - 1] = "}"
        /\ (/\ base = New(<<>>)
            /\ AllAttrs(cur, last.rec) = <<>>
            /\ last.rec = Record(1, LevelInfo, 1, <<>>)) =>
              last.r.writes = <<BasicLogFormat>>

\* C17: a line with all six segments has been written.
C17_Witness ==
    /\ Handled
    /\ Wrote
    /\ base = New(<<>>)
    /\ last.rec.time # 0
    /\ last.rec.pc # 0
    /\ HasBlock(Tokens)
    /\ Len(BeforeBlock(Tokens)) = 7

\* The call just made was WithAttrs with no attributes or WithGroup with the
\* empty name.
EmptyDerivation(l) ==
    \/ l.op = "WithAttrs" /\ l.attrs = <<>>
    \/ l.op = "WithGroup" /\ l.name = ""

\* C18: WithAttrs with an empty attribute list and WithGroup with the empty
\* name return the handler they are called on: no handler is made, and a
\* Handle call on the handler returned writes what it wrote on the receiver.
C18_EmptyDerivationReturnsReceiver ==
    /\ [][EmptyDerivation(last') =>
              /\ last'.ret = last'.h
              /\ cur' = cur
              /\ handlers' = handlers]_vars
    /\ [](EmptyDerivation(last) =>
              \A in \in HandleInputs :
                  SameOutput(commonHandle(base, last.ret, in.rec, in.writeFails),
                             commonHandle(base, last.h, in.rec, in.writeFails)))

\* C18: WithGroup("") has been called on a handler that is inside a group and
\* holds attributes.
C18_Witness ==
    /\ EmptyDerivation(last)
    /\ last.op = "WithGroup"
    /\ last.h # 0
    /\ groups(last.h) # <<>>
    /\ handlers[last.h].kind = "attr"

\* C19: the replacement chain is called with attributes that are no groups
\* only: of a group-typed attribute its members are passed, never the group
\* attribute itself.
C19_ChainNotCalledWithGroups ==
    Handled =>
        \A i \in DOMAIN last.r.out.fncalls : last.r.out.fncalls[i].attr.kind # "Group"

RECURSIVE CallLeaves(_)
\* Of a sequence of replaceAttrs calls, those for attributes that are no groups
\* and none of time, pid, level and message, each with the group path it was
\* given.
CallLeaves(calls) ==
    IF calls = <<>> THEN <<>>
    ELSE LET c == Head(calls)
         IN  (IF c.attr.kind = "Group" \/ c.attr.key \in SyntheticKeys
              THEN <<>>
              ELSE <<[key |-> <<c.attr.key>>, text |-> ValueText(c.attr), path |-> c.groups]>>)
             \o CallLeaves(Tail(calls))

\* C20: the group path given to the replacement chain with an attribute is the
\* sequence of the names of the objects around the attribute in the block
\* written: the groups opened before a bound attribute was bound, every opened
\* group for an attribute of the record, then the keys of the group-typed
\* values around a member; time, pid, level and message are given the empty
\* path, whatever groups are open.
C20_GroupPathMatchesBlock ==
    Handled =>
        /\ \A i \in DOMAIN last.r.out.calls :
               last.r.out.calls[i].attr.key \in SyntheticKeys =>
                   last.r.out.calls[i].groups = <<>>
        /\ (IdentityRepl /\ Wrote) =>
               /\ CallLeaves(last.r.out.calls) = ParseLeaves(BlockInner(Tokens), <<>>, <<>>)
               /\ CallLeaves(last.r.out.calls)
                      = BoundLeaves(Frames(cur), <<>>)
                        \o Leaves(last.rec.attrs, FrameGroups(Frames(cur)))

\* C20: a record with a group-typed attribute has been written by a handler
\* with two groups opened and an attribute bound between them, its replacement
\* function called for every attribute.
C20_Witness ==
    /\ Handled
    /\ Wrote
    /\ base.replaceAttr = Fn("keep")
    /\ Len(groups(cur)) = 2
    /\ groups(cur)[1] # groups(cur)[2]
    /\ \E i \in DOMAIN last.r.out.fncalls :
           /\ last.r.out.fncalls[i].attr.key \notin SyntheticKeys
           /\ Len(last.r.out.fncalls[i].groups) = 1
    /\ \E i \in DOMAIN last.r.out.fncalls : Len(last.r.out.fncalls[i].groups) = 3

RECURSIVE CommasFrom(_, _, _)
\* The entries of a block from the i-th on are separated as a JSON object's
\* members are: stack holds, for each object open at i, whether a member of
\* it has been written; a field has the comma and the space before it exactly
\* when it is not the first member of its object, and a comma stands nowhere
\* but two entries before a field.
CommasFrom(toks, i, stack) ==
    IF i > Len(toks) THEN TRUE
    ELSE LET t == toks[i]
             top == Len(stack)
         IN  CASE t = "{" -> CommasFrom(toks, i + 1, Append(stack, FALSE))
               [] t = "}" -> top > 0 /\ CommasFrom(toks, i + 1, SubSeq(stack, 1, top - 1))
               [] t = "," ->
                    /\ i + 2 <= Len(toks)
                    /\ toks[i + 1] = " "
                    /\ IsField(toks[i + 2])
                    /\ CommasFrom(toks, i + 1, stack)
               [] IsField(t) ->
                    /\ top > 0
                    /\ stack[top] <=> (i > 2 /\ toks[i - 2] = "," /\ toks[i - 1] = " ")
                    /\ CommasFrom(toks, i + 1, [stack EXCEPT ![top] = TRUE])
               [] OTHER -> CommasFrom(toks, i + 1, stack)

\* C21: in the attribute block of every line written, no comma stands before
\* the first member of an object (the block itself, a group frame, a
\* group-typed value) and exactly one comma and space before every later
\* member of the same object, whatever the nesting of frames, group values and
\* groups with an empty key, and whatever attributes the chain removed.
C21_CommaPerObject ==
    (Handled /\ Wrote) => CommasFrom(BlockTokens(Tokens), 1, <<>>)

\* C21: a block has been written in which a member follows a nested object
\* inside a group frame, and in which the members of a group with an empty key
\* stand among their siblings.
C21_Witness ==
    /\ Handled
    /\ Wrote
    /\ groups(cur) # <<>>
    /\ \E i \in DOMAIN last.rec.attrs :
           last.rec.attrs[i].kind = "Group" /\ last.rec.attrs[i].key = ""
    /\ \E i \in DOMAIN Tokens : i > 1 /\ Tokens[i] = "," /\ Tokens[i - 1] = "}"
    /\ Positions(Tokens, FieldText("e")) # {}

RECURSIVE OpenAfter(_, _)
\* The number of objects open after the entries toks, depth being open before
\* them; -1 if at some entry more objects have been closed than opened.
OpenAfter(toks, depth) ==
    IF depth < 0 \/ toks = <<>> THEN depth
    ELSE OpenAfter(Tail(toks),
                   CASE Head(toks) = "{" -> depth + 1
                     [] Head(toks) = "}" -> depth - 1
                     [] OTHER -> depth)

\* C22: in the line a Handle call writes, on any handler chain and for any
\* record, as many closing braces stand as opening ones, and in no prefix of
\* the line more closing than opening ones.
C22_BracesBalanced ==
    (Handled /\ Wrote) => OpenAfter(Tokens, 0) = 0

\* C22: a line has been written with two group frames and a group-typed value
\* open at once.
C22_Witness ==
    /\ Handled
    /\ Wrote
    /\ Len(groups(cur)) = 2
    /\ \E i \in DOMAIN Tokens :
           OpenAfter(SubSeq(Tokens, 1, i), 0) = 4

\* The attributes of a list and, for a group, of its members, that are
\* LogValuers.
RECURSIVE HasLogValuer(_)
HasLogValuer(attrs) ==
    \E i \in DOMAIN attrs :
        \/ attrs[i].kind = "LogValuer"
        \/ attrs[i].kind = "Group" /\ HasLogValuer(attrs[i].group)

\* C23: for attributes of every kind of value (string, int64, uint64, float64,
\* bool, duration, time, any, group, lazy), bound or of the record, at the top
\* level or members of a group, no Handle call ends in one of the panics of
\* the serializer ("No writer found for value", "Unexpected use of LogValuer
\* instead of Value.Resolve"): every call returns.
C23_NoFatalBranch ==
    Handled => (last.r.ret # "panic" /\ last.r.out.panic = "")

\* C23: a handler that holds a bound LogValuer has written a record whose
\* attributes hold LogValuers inside a group, one of them panicking.
C23_Witness ==
    /\ Handled
    /\ Wrote
    /\ HasLogValuer(AllAttrs(cur, [attrs |-> <<>>]))
    /\ \E i \in DOMAIN last.rec.attrs :
           last.rec.attrs[i].kind = "Group" /\ HasLogValuer(last.rec.attrs[i].group)
    /\ Positions(Tokens, FieldText("y")) # {}

\* C24: no call of WithAttrs, WithGroup or Handle, on any handler, changes
\* the base handler or a derived handler there is: each handler, the receiver
\* and its ancestors and the other children of its parent among them, writes
\* after the call the line it wrote before it, and is the handler it was.
C24_HandlersImmutable ==
    /\ [](last.op \in {"WithAttrs", "WithGroup", "Handle"} =>
             \A h \in DOMAIN last.before :
                 commonHandle(base, h, ForkProbe, FALSE).writes = last.before[h])
    /\ [][/\ base' = base
          /\ Len(handlers') >= Len(handlers)
          /\ \A h \in DOMAIN handlers : handlers'[h] = handlers[h]]_vars

\* C24: a derived handler has two children, and Handle has been called on the
\* first of them after the second was derived.
C24_Witness ==
    /\ last.op = "Handle"
    /\ \E i, j \in DOMAIN handlers :
           /\ i < j
           /\ handlers[i].previousHandler = handlers[j].previousHandler
           /\ handlers[i].previousHandler # 0
           /\ last.h = i

\* C25: with Handle calls running at the same time on handlers of one base,
\* however their steps interleave: no two calls use the same stream; each call
\* calls Write at most once; and the argument of every Write is the whole line
\* of the record of the call that made it, the line the call writes when it
\* runs alone.
C25_OneLinePerWrite ==
    /\ \A g1, g2 \in Goroutines :
           (g1 # g2 /\ running[g1] # Idle /\ running[g2] # Idle) =>
               running[g1].out # running[g2].out
    /\ \A k1, k2 \in DOMAIN destination :
           k1 # k2 => destination[k1].by # destination[k2].by
    /\ \A k \in DOMAIN destination :
           LET c == running[destination[k].by]
           IN  /\ c.pc = "done"
               /\ commonHandle(base, c.h, c.rec, FALSE).writes = <<destination[k].bytes>>
    /\ \A g \in Goroutines :
           (running[g] # Idle /\ running[g].pc = "done" /\ running[g].ret # "nil") =>
               /\ commonHandle(base, running[g].h, running[g].rec, FALSE).ret = running[g].ret
               /\ \A k \in DOMAIN destination : destination[k].by # g

\* C25: goroutine g1 began its call first and is in the middle of its line,
\* on a derived handler, while g2, which began later, has made its Write.
C25_Witness ==
    /\ running["g1"] # Idle
    /\ running["g1"].pc = "writers"
    /\ running["g1"].i = 5
    /\ running["g1"].h # 0
    /\ running["g1"].out = 1
    /\ running["g2"] # Idle
    /\ running["g2"].pc = "done"
    /\ Len(destination) = 1

\* The text of 2 raised to quarters / diff: the number if it is a whole one,
\* the power spelled out if not.
TwoToThe(quarters, diff) ==
    IF quarters % diff = 0 /\ quarters >= 0
    THEN ToString(2 ^ (quarters \div diff))
    ELSE "2^(" \o ToString(quarters) \o "/" \o ToString(diff) \o ")"

\* The level segment of the line just written: the third of the header, after
\* the timestamp and the pid.
LevelSegment == Header(Tokens)[3]

\* C26, as claimed: with numeric severity the severity of a record at level L
\* is 2 raised to (L - LevelWarn)/(LevelError - LevelWarn) + 1
\* - LevelDebug/(LevelError - LevelWarn), for every level L.
C26_ExponentFromWarn ==
    (Handled /\ Wrote) =>
        LevelSegment
            = "<" \o TwoToThe((last.rec.level - LevelWarn) + (LevelError - LevelWarn) - LevelDebug,
                              LevelError - LevelWarn) \o "> "

\* C26, amended: with numeric severity the severity of a record at level L is
\* 2 raised to L/(LevelError - LevelWarn) + 1 - LevelDebug/(LevelError -
\* LevelWarn), for every level L: the level itself is divided, not its
\* distance from LevelWarn.
C26_ExponentFromLevel ==
    (Handled /\ Wrote) =>
        LevelSegment
            = "<" \o TwoToThe(last.rec.level + (LevelError - LevelWarn) - LevelDebug,
                              LevelError - LevelWarn) \o "> "

\* C26: a record at a level between LevelWarn and LevelError has been written
\* with numeric severity: the exponent is 13/4.
C26_Witness ==
    /\ Handled
    /\ Wrote
    /\ base.numericSeverity
    /\ last.rec.level = LevelWarn + 1
    /\ LevelSegment = "<2^(13/4)> "

RECURSIVE WithoutPath(_)
\* The leaves of a sequence with their keys and values only.
WithoutPath(leaves) ==
    IF leaves = <<>> THEN <<>>
    ELSE <<[key |-> Head(leaves).key, text |-> Head(leaves).text]>> \o WithoutPath(Tail(leaves))

\* The number of replaceAttrs calls of the Handle call for the key k at the top
\* level.
SyntheticCalls(k) ==
    Cardinality({i \in DOMAIN last.r.out.calls :
                    last.r.out.calls[i].attr.key = k /\ last.r.out.calls[i].groups = <<>>})

\* C27: in one Handle call each bound attribute, each attribute of the record
\* and each member of a group-typed value, groups apart, is passed to the
\* replacement chain exactly once, in the order of the block; pid, level and
\* message are passed once each, and time once if the record's time is not
\* zero and not at all if it is.
C27_EachLeafOnce ==
    Handled =>
        /\ WithoutPath(CallLeaves(last.r.out.calls))
               = WithoutPath(BoundLeaves(Frames(cur), <<>>) \o Leaves(last.rec.attrs, <<>>))
        /\ SyntheticCalls(PidKey) = 1
        /\ SyntheticCalls(LevelKey) = 1
        /\ SyntheticCalls(MessageKey) = 1
        /\ SyntheticCalls(TimeKey) = (IF last.rec.time = 0 THEN 0 ELSE 1)

RECURSIVE Newlines(_)
\* The number of newlines in the entries of a stream: the entry that is the
\* newline holds one, and so does the text of two lines written as it is.
Newlines(buf) ==
    IF buf = <<>> THEN 0
    ELSE (IF Head(buf) \in {"\n", TwoLines} THEN 1 ELSE 0) + Newlines(Tail(buf))

\* C28: the bytes a Handle call passes to the destination hold exactly one
\* newline, their last byte, whatever the text of the message and the values
\* of the attributes.
C28_OneNewline ==
    (Handled /\ Wrote) =>
        /\ Newlines(Tokens) = 1
        /\ Tokens[Len(Tokens)] = "\n"

\* C29: if a writer leaves an error on the stream, the Handle call returns
\* the stream's error and calls Write on the destination not at all, so that
\* nothing of the record reaches the destination.
C29_StreamErrorNoWrite ==
    (Handled /\ last.r.out.err) =>
        /\ last.r.ret = "stream"
        /\ last.r.writes = <<>>

\* C29: a Handle call on a derived handler has ended with a stream error after
\* the header and a part of the block were in the stream.
C29_Witness ==
    /\ Handled
    /\ last.r.out.err
    /\ last.h # 0
    /\ Positions(Tokens, "{") # {}
    /\ Positions(Tokens, FieldText("x")) # {}

\* The records of the destination that a Trace call and its stopper wrote.
EnteredOf(by) ==
    {k \in DOMAIN destination :
        destination[k].by = by /\ destination[k].rec.message = "Entered."}

ExitedOf(by) ==
    {k \in DOMAIN destination :
        destination[k].by = by /\ destination[k].rec.message = "Exited."}

\* The entries of the line the handler writes for a record of the destination.
TraceLine(e) == commonHandle(base, stoppers[e.by].logger, e.rec, FALSE).out.buf

\* C30: Trace records are paired.  A Trace call made while Debug is enabled
\* issues one "Entered." record and every Stop call of its stopper issues
\* exactly one "Exited." record, with a duration attribute and the caller of
\* the Trace call, also when Debug was disabled in between; a Trace call made
\* while Debug is disabled issues no record and neither does its stopper, also
\* when Debug was enabled in between.  So every "Exited." record comes after
\* the "Entered." record of the same Trace call.
C30_TraceRecordsPaired ==
    /\ [](/\ \A by \in DOMAIN stoppers :
                IF stoppers[by].kind = "nullStopper"
                THEN EnteredOf(by) = {} /\ ExitedOf(by) = {}
                ELSE /\ Cardinality(EnteredOf(by)) = 1
                     /\ \A k \in ExitedOf(by) :
                           \E j \in EnteredOf(by) :
                               /\ j < k
                               /\ destination[j].rec.pc = destination[k].rec.pc
                               /\ Header(TraceLine(destination[j]))[4]
                                  = Header(TraceLine(destination[k]))[4]
          /\ \A k \in DOMAIN destination :
                LET e == destination[k]
                IN  /\ e.by \in DOMAIN stoppers
                    /\ e.rec.message \in {"Entered.", "Exited."}
                    /\ e.rec.level = LevelDebug
                    /\ e.rec.pc = stoppers[e.by].pc
                    /\ e.bytes = Concat(TraceLine(e))
                    /\ Header(TraceLine(e))[4] = FrameFunction(e.rec.pc).name \o ": "
                    /\ Header(TraceLine(e))[5] = e.rec.message
                    /\ e.rec.message = "Exited."
                       => /\ Len(e.rec.attrs) = 1
                          /\ e.rec.attrs[1].key = "duration"
                          /\ e.rec.attrs[1].kind = "Duration"
                          /\ Positions(TraceLine(e), FieldText("duration")) # {})
    /\ [][/\ last'.op = "Trace"
             => /\ Len(stoppers') = Len(stoppers) + 1
                /\ stoppers'[last'.by].kind = "stopper" <=> Enabled(cur, LevelDebug)
                /\ Len(destination')
                   = Len(destination) + (IF Enabled(cur, LevelDebug) THEN 1 ELSE 0)
          /\ last'.op = "Stop"
             => /\ stoppers' = stoppers
                /\ Len(destination')
                   = Len(destination)
                     + (IF stoppers[last'.by].kind = "stopper" THEN 1 ELSE 0)
                /\ \A k \in DOMAIN destination' \ DOMAIN destination :
                      /\ destination'[k].by = last'.by
                      /\ destination'[k].rec.message = "Exited."]_vars

\* A stopper has written "Exited." while Debug is disabled, after a Trace call
\* made while Debug was disabled returned a stopper that writes nothing.
C30_Witness ==
    /\ last.op = "Stop"
    /\ ~last.enabled
    /\ stoppers[last.by].kind = "stopper"
    /\ ExitedOf(last.by) # {}
    /\ Greatest(ExitedOf(last.by)) = Len(destination)
    /\ \E by \in DOMAIN stoppers : stoppers[by].kind = "nullStopper"

====
